---- MODULE Spec2Model ----
(***************************************************************************)
(* Model of two flows of the Azure Functions extension:                    *)
(*   - PythonProjectCreator (createNewProject/PythonProjectCreator.ts):    *)
(*     interpreter discovery, virtual environment selection, activation    *)
(*     path resolution and project initialisation;                         *)
(*   - AzureConnectionCreateStepBase.execute                               *)
(*     (addBinding/settingSteps/AzureConnectionCreateStepBase.ts).         *)
(* Strings whose content matters are sequences: a version output and a     *)
(* setting key are sequences of one-character strings, a path is a         *)
(* sequence of tokens in which every separator is a token of its own.      *)
(***************************************************************************)
EXTENDS Integers, Sequences, FiniteSets, TLC

\* ------------------------------------------------------------------ state
\* PythonProjectCreator, its workspace setting and the call in flight.
VARIABLES hostPlatform, pc, op, calls, pythonAlias, probeIdx, outcome,
          venvCaller, platform, taskIdx, cycles, prompts, writes, setting, ret,
          result, events, venvCmdAlias, aliasAtCall, retFor, lastAnswer

pyVars == <<hostPlatform, pc, op, calls, pythonAlias, probeIdx, outcome,
            venvCaller, platform, taskIdx, cycles, prompts, writes, setting, ret,
            result, events, venvCmdAlias, aliasAtCall, retFor, lastAnswer>>

\* One tryGetPythonAlias call taken alone.
VARIABLES pPhase, pCurrent, pAlias, pKind, pOut, pTriple, pAfter

probeVars == <<pPhase, pCurrent, pAlias, pKind, pOut, pTriple, pAfter>>

\* AzureConnectionCreateStepBase, the wizard context and the local settings.
VARIABLES cpc, bindingSetting, wizardContext, localSettings, pendingSet, executes,
          getConnectionCalls, setLocalAppSettingCalls, raised, atStart, connection,
          execResult

connVars == <<cpc, bindingSetting, wizardContext, localSettings, pendingSet, executes,
              getConnectionCalls, setLocalAppSettingCalls, raised, atStart, connection,
              execResult>>

vars == <<pyVars, probeVars, connVars>>

\* ------------------------------------------------------------------ bounds
\* Version components an interpreter may report: major MinMajor..MaxMajor,
\* minor 0..MaxMinor, patch 0..MaxPatch.
MinMajor == 2
MaxMajor == 4
MaxMinor == 10
MaxPatch == 9
\* setVirtualEnviornment calls allowed inside one getVenvActivatePath invocation.
MaxCycles == 2
\* Public calls made on one PythonProjectCreator instance.
MaxCalls == 2

\* ------------------------------------------------------------------ characters
DigitChars == <<"0", "1", "2", "3", "4", "5", "6", "7", "8", "9">>

LowerChars == <<"a", "b", "c", "d", "e", "f", "g", "h", "i", "j", "k", "l", "m",
                "n", "o", "p", "q", "r", "s", "t", "u", "v", "w", "x", "y", "z">>

UpperChars == <<"A", "B", "C", "D", "E", "F", "G", "H", "I", "J", "K", "L", "M",
                "N", "O", "P", "Q", "R", "S", "T", "U", "V", "W", "X", "Y", "Z">>

IsDigit(c) == \E i \in 1..10 : DigitChars[i] = c

DigitValue(c) == (CHOOSE i \in 1..10 : DigitChars[i] = c) - 1

\* String.prototype.toUpperCase on one character.
UpperChar(c) ==
    IF \E i \in 1..26 : LowerChars[i] = c
    THEN UpperChars[CHOOSE i \in 1..26 : LowerChars[i] = c]
    ELSE c

\* String.prototype.toUpperCase.
ToUpperCase(s) == [i \in 1..Len(s) |-> UpperChar(s[i])]

\* String.prototype.substring(start) with a 0-based start.
Substring(s, start) == IF start >= Len(s) THEN <<>> ELSE SubSeq(s, start + 1, Len(s))

\* ------------------------------------------------------------------ semver
\* Decimal rendering of a natural number, as the interpreter prints it.
RECURSIVE NumToStr(_)
NumToStr(n) ==
    IF n < 10 THEN <<DigitChars[n + 1]>>
    ELSE NumToStr(n \div 10) \o <<DigitChars[(n % 10) + 1]>>

\* What `<alias> --version` prints for an interpreter of version t.
PythonVersionOutput(t) ==
    <<"P", "y", "t", "h", "o", "n", " ">>
        \o NumToStr(t[1]) \o <<".">> \o NumToStr(t[2]) \o <<".">> \o NumToStr(t[3])

\* The fields of s between dots.
RECURSIVE SplitDots(_)
SplitDots(s) ==
    IF \A i \in 1..Len(s) : s[i] # "."
    THEN <<s>>
    ELSE LET k == CHOOSE i \in 1..Len(s) : s[i] = "." /\ \A j \in 1..(i - 1) : s[j] # "."
         IN  <<SubSeq(s, 1, k - 1)>> \o SplitDots(SubSeq(s, k + 1, Len(s)))

\* semver's numeric identifier: 0, or digits with no leading zero.
IsNumericIdentifier(f) ==
    /\ Len(f) >= 1
    /\ \A i \in 1..Len(f) : IsDigit(f[i])
    /\ (Len(f) > 1 => f[1] # "0")

RECURSIVE StrToNum(_)
StrToNum(f) ==
    IF Len(f) = 0 THEN 0
    ELSE 10 * StrToNum(SubSeq(f, 1, Len(f) - 1)) + DigitValue(f[Len(f)])

\* semver's strict parse of MAJOR.MINOR.PATCH with an optional leading "v"
\* (the outputs modelled carry no pre-release or build part).
VersionBody(s) == IF Len(s) > 0 /\ s[1] = "v" THEN Substring(s, 1) ELSE s

SemverValid(s) ==
    LET f == SplitDots(VersionBody(s))
    IN  Len(f) = 3 /\ \A i \in 1..3 : IsNumericIdentifier(f[i])

SemverParse(s) ==
    LET f == SplitDots(VersionBody(s))
    IN  <<StrToNum(f[1]), StrToNum(f[2]), StrToNum(f[3])>>

\* semver's compareIdentifiers on numbers: -1, 0 or 1.
CompareIdentifiers(a, b) == IF a < b THEN -1 ELSE IF a > b THEN 1 ELSE 0

\* SemVer.compareMain: major, then minor, then patch.
CompareMain(v, w) ==
    IF CompareIdentifiers(v[1], w[1]) # 0 THEN CompareIdentifiers(v[1], w[1])
    ELSE IF CompareIdentifiers(v[2], w[2]) # 0 THEN CompareIdentifiers(v[2], w[2])
    ELSE CompareIdentifiers(v[3], w[3])

\* A strict comparison: semver.gt in place of semver.gte.
SemverGt(a, b) == CompareMain(SemverParse(a), SemverParse(b)) > 0

\* semver.gte(a, b) for two valid versions.
SemverGte(a, b) == CompareMain(SemverParse(a), SemverParse(b)) >= 0

minReqVersion == <<"3", ".", "6", ".", "0">>

\* ------------------------------------------------------------------ paths
\* Platform enum (process.platform values).
Windows == "win32"
MacOS == "darwin"
Linux == "linux"

\* path.sep of the host the extension runs on.
Sep == IF hostPlatform = Windows THEN "\\" ELSE "/"

\* A separator for the host's path module: win32 accepts both slashes.
IsSep(tok) == tok = "/" \/ (hostPlatform = Windows /\ tok = "\\")

\* The segments of a path string (empty segments are dropped by normalizeString).
Segments(s) == SelectSeq(s, LAMBDA tok : ~IsSep(tok))

\* The string made of the segments with the host separator between them.
RECURSIVE Render(_)
Render(segs) ==
    IF Len(segs) = 0 THEN <<>>
    ELSE IF Len(segs) = 1 THEN segs
    ELSE <<Head(segs), Sep>> \o Render(Tail(segs))

\* Node's normalizeString with allowAboveRoot (relative paths): "." segments go,
\* ".." cancels the segment before it unless that is ".." itself.
RECURSIVE NormalizeString(_, _)
NormalizeString(res, segs) ==
    IF Len(segs) = 0 THEN res
    ELSE LET seg == Head(segs)
         IN  IF seg = "." THEN NormalizeString(res, Tail(segs))
             ELSE IF seg = ".." /\ Len(res) > 0 /\ res[Len(res)] # ".."
                  THEN NormalizeString(SubSeq(res, 1, Len(res) - 1), Tail(segs))
                  ELSE NormalizeString(Append(res, seg), Tail(segs))

\* path.normalize of a relative path with no trailing separator.
Normalize(s) ==
    LET n == NormalizeString(<<>>, Segments(s))
    IN  IF Len(n) = 0 THEN <<".">> ELSE Render(n)

\* The arguments of path.join glued with the separator, empty arguments skipped.
RECURSIVE Glue(_)
Glue(args) ==
    IF Len(args) = 0 THEN <<>>
    ELSE LET rest == Glue(Tail(args))
         IN  IF Len(Head(args)) = 0 THEN rest
             ELSE IF Len(rest) = 0 THEN Head(args)
             ELSE Head(args) \o <<Sep>> \o rest

\* A join that only glues its arguments.
JoinUnnormalized(args) == Glue(args)

\* path.join.
Join(args) == IF Len(Glue(args)) = 0 THEN <<".">> ELSE Normalize(Glue(args))

\* Length of the common prefix of two segment lists.
RECURSIVE CommonPrefix(_, _)
CommonPrefix(a, b) ==
    IF Len(a) = 0 \/ Len(b) = 0 \/ Head(a) # Head(b) THEN 0
    ELSE 1 + CommonPrefix(Tail(a), Tail(b))

\* path.relative of two absolute paths of one root, each given by its segments.
Relative(from, to) ==
    LET k == CommonPrefix(from, to)
    IN  Render([i \in 1..(Len(from) - k) |-> ".."] \o SubSeq(to, k + 1, Len(to)))

\* ------------------------------------------------------------------ Python project creator
Undefined == "undefined"

\* The aliases in the order validatePythonVersion probes them.
Aliases == <<"py", "python", "python3">>

functionAppPath == <<"ws", "app">>

funcEnv == <<"func_env">>

\* Folders the open dialog can return.
Folders ==
    { <<"ws", "app">>, <<"ws", "app", "func_env">>, <<"ws", "app", "envs", "v1">>,
      <<"ws", "venv">>, <<"ws">> }

Triples == (MinMajor..MaxMajor) \X (0..MaxMinor) \X (0..MaxPatch)

\* Interpreter versions met while a whole bootstrap runs.
InstalledVersions == { <<2, 7, 9>>, <<3, 5, 9>>, <<3, 6, 0>>, <<3, 10, 2>> }

\* Outputs of `<alias> --version` that are no version of the form Python X.Y.Z.
GarbageOutputs ==
    { <<>>,
      <<"P", "y", "t", "h", "o", "n", " ", "3", ".", "6">>,
      <<"P", "y", "t", "h", "o", "n", " ", "3", ".", "0", "7", ".", "1">>,
      <<"P", "y", "t", "h", "o", "n", " ", "3", ".", "7", ".", "0", "r", "c", "1">>,
      <<"n", "o", "t", " ", "f", "o", "u", "n", "d">> }

SettingUndefined == [defined |-> FALSE, value |-> <<>>]

NoOutcome == [a \in {"py", "python", "python3"} |-> "none"]

NoReturn == [platform |-> MacOS, venvPath |-> <<>>]

NoResult == [op |-> "none", status |-> "none", error |-> "none"]

\* The platforms getTasksJson asks the activation path for: osx, windows, linux.
TaskPlatforms == <<MacOS, Windows, MacOS>>

PyInit ==
    /\ hostPlatform \in {Windows, MacOS, Linux}
    /\ pc = "idle"
    /\ op = "none"
    /\ calls = 0
    /\ pythonAlias = Undefined
    /\ probeIdx = 0
    /\ outcome = NoOutcome
    /\ venvCaller = "none"
    /\ platform = MacOS
    /\ taskIdx = 0
    /\ cycles = 0
    /\ prompts = 0
    /\ writes = 0
    /\ setting \in {SettingUndefined, [defined |-> TRUE, value |-> funcEnv]}
    /\ ret = <<>>
    /\ result = NoResult
    /\ events = {}
    /\ venvCmdAlias = Undefined
    /\ aliasAtCall = Undefined
    /\ retFor = NoReturn
    /\ lastAnswer = "none"

\* A rejected promise leaves the public operation: the rest of it does not run.
Throw(err) ==
    /\ pc' = "idle"
    /\ result' = [op |-> op, status |-> "rejected", error |-> err]

\* An addNonVSCodeFiles that goes on whatever validateFuncCoreToolsInstalled answers.
AddNonVSCodeFilesUnchecked(installed) ==
    /\ pc = "idle"
    /\ aliasAtCall' = pythonAlias
    /\ lastAnswer' = IF installed THEN "toolsInstalled" ELSE "toolsRejected"
    /\ calls < MaxCalls
    /\ calls' = calls + 1
    /\ op' = "addNonVSCodeFiles"
    /\ events' = {}
    /\ outcome' = NoOutcome
    /\ venvCmdAlias' = Undefined
    /\ cycles' = 0
    /\ prompts' = 0
    /\ writes' = 0
    /\ pc' = "probe"
    /\ probeIdx' = 1
    /\ result' = NoResult
    /\ UNCHANGED <<hostPlatform, pythonAlias, venvCaller, platform, taskIdx, setting, ret,
                   probeVars, connVars, retFor>>

\* addNonVSCodeFiles up to its first suspension after validateFuncCoreToolsInstalled.
AddNonVSCodeFiles(installed) ==
    /\ pc = "idle"
    /\ aliasAtCall' = pythonAlias
    /\ lastAnswer' = IF installed THEN "toolsInstalled" ELSE "toolsRejected"
    /\ calls < MaxCalls
    /\ calls' = calls + 1
    /\ op' = "addNonVSCodeFiles"
    /\ events' = {}
    /\ outcome' = NoOutcome
    /\ venvCmdAlias' = Undefined
    /\ cycles' = 0
    /\ prompts' = 0
    /\ writes' = 0
    /\ IF installed
       THEN /\ pc' = "probe"
            /\ probeIdx' = 1
            /\ result' = NoResult
       ELSE /\ pc' = "idle"
            /\ probeIdx' = 0
            /\ result' = [op |-> "addNonVSCodeFiles", status |-> "rejected",
                          error |-> "UserCancelledError"]
    /\ UNCHANGED <<hostPlatform, pythonAlias, venvCaller, platform, taskIdx, setting, ret,
                   probeVars, connVars, retFor>>

\* An assignment that keeps an alias once one is accepted.
AliasAfterProbeFirstWins(current, pyAlias, failed, out) ==
    LET pyVersion == Substring(out, 7)
    IN  IF ~failed /\ SemverValid(pyVersion) /\ SemverGte(pyVersion, minReqVersion)
           /\ current = Undefined
        THEN pyAlias
        ELSE current

\* A probe whose failure clears the alias selected so far.
AliasAfterProbeFailureClears(current, pyAlias, failed, out) ==
    LET pyVersion == Substring(out, 7)
    IN  IF failed \/ ~SemverValid(pyVersion) THEN Undefined
        ELSE IF SemverGte(pyVersion, minReqVersion) THEN pyAlias
        ELSE current

\* this.pythonAlias after tryGetPythonAlias(pyAlias, minReqVersion): the command
\* fails (failed) or prints out; a command failure and semver's TypeError on an
\* invalid version are both caught and leave the field alone.
AliasAfterProbe(current, pyAlias, failed, out) ==
    LET pyVersion == Substring(out, 7)
    IN  IF ~failed /\ SemverValid(pyVersion) /\ SemverGte(pyVersion, minReqVersion)
        THEN pyAlias
        ELSE current

\* Lexicographic order on (major, minor, patch).
TripleGE(t, u) ==
    \/ t[1] > u[1]
    \/ t[1] = u[1] /\ t[2] > u[2]
    \/ t[1] = u[1] /\ t[2] = u[2] /\ t[3] >= u[3]

\* How the environment answered a probe: the three outcomes of an alias.
OutcomeOf(kind, t) ==
    IF kind # "version" THEN "failure"
    ELSE IF TripleGE(t, <<3, 6, 0>>) THEN "qualifying"
    ELSE "old"

\* One tryGetPythonAlias call of validatePythonVersion, from the command's end.
TryGetPythonAlias(kind, out, t) ==
    /\ pc = "probe"
    /\ lastAnswer' = "none"
    /\ LET pyAlias == Aliases[probeIdx]
           next == AliasAfterProbe(pythonAlias, pyAlias, kind = "error", out)
       IN  /\ pythonAlias' = next
           /\ outcome' = [outcome EXCEPT ![pyAlias] = OutcomeOf(kind, t)]
    /\ events' = events \cup {"probe"}
    /\ IF probeIdx < Len(Aliases)
       THEN probeIdx' = probeIdx + 1 /\ pc' = "probe"
       ELSE probeIdx' = probeIdx /\ pc' = "validateEnd"
    /\ UNCHANGED <<hostPlatform, op, calls, venvCaller, platform, taskIdx, cycles,
                   prompts, writes, setting, ret, result, venvCmdAlias,
                   probeVars, connVars, aliasAtCall, retFor>>

\* The end of validatePythonVersion, and on success the call of setVirtualEnviornment
\* up to its modal prompt.
ValidatePythonVersionEnd ==
    /\ pc = "validateEnd"
    /\ lastAnswer' = "none"
    /\ IF pythonAlias = Undefined
       THEN /\ Throw("PythonRequired")
            /\ UNCHANGED <<venvCaller, events>>
       ELSE /\ pc' = "prompt"
            /\ venvCaller' = "addNonVSCodeFiles"
            /\ events' = events \cup {"prompt"}
            /\ UNCHANGED result
    /\ UNCHANGED <<hostPlatform, op, calls, pythonAlias, probeIdx, outcome, platform,
                   taskIdx, cycles, prompts, writes, setting, ret, venvCmdAlias,
                   probeVars, connVars, aliasAtCall, retFor>>

\* setVirtualEnviornment after the modal prompt: input is a button, or the prompt
\* is dismissed and ext.ui rejects with UserCancelledError.
ShowWarningMessage(input) ==
    /\ pc = "prompt"
    /\ lastAnswer' = input
    /\ CASE input = "Create New" ->
              /\ pc' = "venvCmd"
              /\ events' = events \cup {"venvCmd"}
              /\ venvCmdAlias' = pythonAlias
              /\ UNCHANGED result
         [] input = "Use Existing" ->
              /\ pc' = "dialog"
              /\ events' = events \cup {"dialog"}
              /\ UNCHANGED <<venvCmdAlias, result>>
         [] OTHER ->
              /\ Throw("UserCancelledError")
              /\ UNCHANGED <<events, venvCmdAlias>>
    /\ UNCHANGED <<hostPlatform, op, calls, pythonAlias, probeIdx, outcome, venvCaller,
                   platform, taskIdx, cycles, prompts, writes, setting, ret,
                   probeVars, connVars, aliasAtCall, retFor>>

\* The platform createPythonProject asks the activation path for.
ProjectPlatform == IF hostPlatform = Windows THEN Windows ELSE MacOS

\* updateWorkspaceSetting(pythonVenvPathSetting, pythonVenvPath), the return of
\* setVirtualEnviornment, and its caller up to the next suspension:
\* addNonVSCodeFiles goes on to createPythonProject, getVenvActivatePath calls itself.
UpdateWorkspaceSetting(pythonVenvPath) ==
    /\ setting' = [defined |-> TRUE, value |-> pythonVenvPath]
    /\ events' = events \cup {"write"}
    /\ pc' = "getVenv"
    /\ IF venvCaller = "addNonVSCodeFiles"
       THEN /\ platform' = ProjectPlatform
            /\ cycles' = 0
            /\ prompts' = 0
            /\ writes' = 0
       ELSE /\ writes' = writes + 1
            /\ UNCHANGED <<platform, cycles, prompts>>

\* The end of `<pythonAlias> -m venv func_env`: no command runs without a name.
VenvCommandReturns(ok) ==
    /\ pc = "venvCmd"
    /\ lastAnswer' = "none"
    /\ ok => venvCmdAlias # Undefined
    /\ IF ok
       THEN /\ UpdateWorkspaceSetting(funcEnv)
            /\ UNCHANGED result
       ELSE /\ Throw("CommandFailed")
            /\ UNCHANGED <<setting, events, platform, cycles, prompts, writes>>
    /\ UNCHANGED <<hostPlatform, op, calls, pythonAlias, probeIdx, outcome, venvCaller,
                   taskIdx, ret, venvCmdAlias,
                   probeVars, connVars, aliasAtCall, retFor>>

\* The open dialog returns one folder.
ShowOpenDialog(folder) ==
    /\ pc = "dialog"
    /\ lastAnswer' = "folder"
    /\ UpdateWorkspaceSetting(Relative(functionAppPath, folder))
    /\ UNCHANGED <<hostPlatform, op, calls, pythonAlias, probeIdx, outcome, venvCaller,
                   taskIdx, ret, result, venvCmdAlias,
                   probeVars, connVars, aliasAtCall, retFor>>

\* The open dialog is dismissed: ext.ui rejects with UserCancelledError.
ShowOpenDialogDismissed ==
    /\ pc = "dialog"
    /\ lastAnswer' = "dismissed"
    /\ Throw("UserCancelledError")
    /\ UNCHANGED <<hostPlatform, op, calls, pythonAlias, probeIdx, outcome, venvCaller,
                   platform, taskIdx, cycles, prompts, writes, setting, ret, events,
                   venvCmdAlias,
                   probeVars, connVars, aliasAtCall, retFor>>

\* The per-OS folder of the activation script.
VenvSubdir(p) == IF p = Windows THEN <<"Scripts">> ELSE <<"bin">>

\* The activation path of getVenvActivatePath for a stored, non-empty venv path.
ActivatePath(venvPath, p) == Join(<<<<".">>, venvPath, VenvSubdir(p), <<"activate">>>>)

\* JavaScript truthiness of the stored setting: undefined and '' are both falsy.
Truthy(s) == s.defined /\ Len(s.value) > 0

\* One call of getVenvActivatePath(platform), up to the next suspension of its caller:
\* with a stored path it returns the activation path, and createPythonProject starts
\* `func init` or getTasksJson asks for the next platform; with none it calls
\* setVirtualEnviornment, whose modal prompt is shown.
GetVenvActivatePath ==
    /\ pc = "getVenv"
    /\ lastAnswer' = "none"
    /\ IF Truthy(setting)
       THEN /\ ret' = ActivatePath(setting.value, platform)
            /\ retFor' = [platform |-> platform, venvPath |-> setting.value]
            /\ IF op = "addNonVSCodeFiles"
               THEN /\ pc' = "funcInit"
                    /\ events' = events \cup {"funcInit"}
                    /\ UNCHANGED <<taskIdx, platform, cycles, prompts, writes, result>>
               ELSE IF taskIdx < Len(TaskPlatforms)
               THEN /\ pc' = "getVenv"
                    /\ taskIdx' = taskIdx + 1
                    /\ platform' = TaskPlatforms[taskIdx + 1]
                    /\ cycles' = 0
                    /\ prompts' = 0
                    /\ writes' = 0
                    /\ UNCHANGED <<events, result>>
               ELSE /\ pc' = "idle"
                    /\ result' = [op |-> op, status |-> "resolved", error |-> "none"]
                    /\ UNCHANGED <<taskIdx, platform, cycles, prompts, writes, events>>
            /\ UNCHANGED venvCaller
       ELSE /\ cycles < MaxCycles
            /\ pc' = "prompt"
            /\ venvCaller' = "getVenvActivatePath"
            /\ cycles' = cycles + 1
            /\ prompts' = prompts + 1
            /\ events' = events \cup {"prompt"}
            /\ UNCHANGED <<ret, retFor, taskIdx, platform, writes, result>>
    /\ UNCHANGED <<hostPlatform, op, calls, pythonAlias, probeIdx, outcome, setting,
                   venvCmdAlias,
                   probeVars, connVars, aliasAtCall>>

\* The end of `func init ./ --worker-runtime python` in createPythonProject.
FuncInitReturns(ok) ==
    /\ pc = "funcInit"
    /\ lastAnswer' = "none"
    /\ IF ok
       THEN /\ pc' = "idle"
            /\ result' = [op |-> op, status |-> "resolved", error |-> "none"]
       ELSE Throw("CommandFailed")
    /\ UNCHANGED <<hostPlatform, op, calls, pythonAlias, probeIdx, outcome, venvCaller,
                   platform, taskIdx, cycles, prompts, writes, setting, ret, events,
                   venvCmdAlias,
                   probeVars, connVars, aliasAtCall, retFor>>

\* getTasksJson up to its first getVenvActivatePath call (the osx command).
GetTasksJson ==
    /\ pc = "idle"
    /\ aliasAtCall' = pythonAlias
    /\ lastAnswer' = "none"
    /\ calls < MaxCalls
    /\ calls' = calls + 1
    /\ op' = "getTasksJson"
    /\ events' = {}
    /\ outcome' = NoOutcome
    /\ venvCmdAlias' = Undefined
    /\ result' = NoResult
    /\ taskIdx' = 1
    /\ platform' = TaskPlatforms[1]
    /\ cycles' = 0
    /\ prompts' = 0
    /\ writes' = 0
    /\ pc' = "getVenv"
    /\ UNCHANGED <<hostPlatform, pythonAlias, probeIdx, venvCaller, setting, ret,
                   probeVars, connVars, retFor>>

PyNext ==
    \/ \E installed \in BOOLEAN : AddNonVSCodeFiles(installed)
    \/ \E t \in InstalledVersions : TryGetPythonAlias("version", PythonVersionOutput(t), t)
    \/ \E g \in GarbageOutputs : TryGetPythonAlias("garbage", g, <<0, 0, 0>>)
    \/ TryGetPythonAlias("error", <<>>, <<0, 0, 0>>)
    \/ ValidatePythonVersionEnd
    \/ \E input \in {"Create New", "Use Existing", "dismissed"} : ShowWarningMessage(input)
    \/ \E ok \in BOOLEAN : VenvCommandReturns(ok)
    \/ \E folder \in Folders : ShowOpenDialog(folder)
    \/ ShowOpenDialogDismissed
    \/ GetVenvActivatePath
    \/ \E ok \in BOOLEAN : FuncInitReturns(ok)
    \/ GetTasksJson

\* ------------------------------------------------------------------ one probe
\* tryGetPythonAlias on its own: the alias held before the call, the alias probed and
\* what the command did, over the whole bounded range of versions.
AliasNames == {Aliases[i] : i \in 1..Len(Aliases)}

ProbeOff ==
    /\ pPhase = "off"
    /\ pCurrent = Undefined
    /\ pAlias = Aliases[1]
    /\ pKind = "error"
    /\ pOut = <<>>
    /\ pTriple = <<0, 0, 0>>
    /\ pAfter = Undefined

ProbeInit ==
    /\ pPhase = "called"
    /\ pCurrent \in AliasNames \cup {Undefined}
    /\ pAlias \in AliasNames
    /\ \/ \E t \in Triples : pKind = "version" /\ pOut = PythonVersionOutput(t) /\ pTriple = t
       \/ \E g \in GarbageOutputs : pKind = "garbage" /\ pOut = g /\ pTriple = <<0, 0, 0>>
       \/ pKind = "error" /\ pOut = <<>> /\ pTriple = <<0, 0, 0>>
    /\ pAfter = pCurrent

\* tryGetPythonAlias(pAlias, minReqVersion) from the end of its command.
TryGetPythonAliasOnce ==
    /\ pPhase = "called"
    /\ pPhase' = "returned"
    /\ pAfter' = AliasAfterProbe(pCurrent, pAlias, pKind = "error", pOut)
    /\ UNCHANGED <<pCurrent, pAlias, pKind, pOut, pTriple,
                   pyVars, connVars>>

\* ------------------------------------------------------------------ connection step
\* execute calls made on one step.
MaxExecutes == 2

\* Resource types of the binding settings the step is built with.
ResourceTypes ==
    { <<"s", "t", "o", "r", "a", "g", "e">>,
      <<"D", "o", "c", "u", "m", "e", "n", "t", "D", "B">>,
      <<"s", "e", "r", "v", "i", "c", "e", "B", "u", "s">> }

\* Connections getConnection can resolve to.
Connections ==
    [name : { <<"S", "t", "o", "r", "a", "g", "e">>, <<"d", "b", "1">> },
     connectionString : {"connectionString1", "connectionString2"}]

GetConnectionErrors == {"AuthenticationError", "UserCancelledError"}

SetLocalAppSettingErrors == {"WriteError", "UserCancelledError"}

NoKey == <<>>

NoConnection == [name |-> <<>>, connectionString |-> "none"]

NoRaised == [by |-> "none", error |-> "none"]

NoPending == [key |-> NoKey, value |-> "none"]

ConnOff ==
    /\ cpc = "idle"
    /\ bindingSetting = [name |-> "connection", resourceType |-> <<"s", "t", "o", "r", "a", "g", "e">>]
    /\ wizardContext = NoKey
    /\ localSettings = {}
    /\ pendingSet = NoPending
    /\ executes = 0
    /\ getConnectionCalls = 0
    /\ setLocalAppSettingCalls = 0
    /\ raised = NoRaised
    /\ atStart = [wizardContext |-> NoKey, localSettings |-> {}]
    /\ connection = NoConnection
    /\ execResult = NoResult

\* The step after its constructor: _setting is the binding setting it was given.
ConnInit ==
    /\ cpc = "idle"
    /\ bindingSetting \in [name : {"connection"}, resourceType : ResourceTypes]
    /\ wizardContext = NoKey
    /\ localSettings = {}
    /\ pendingSet = NoPending
    /\ executes = 0
    /\ getConnectionCalls = 0
    /\ setLocalAppSettingCalls = 0
    /\ raised = NoRaised
    /\ atStart = [wizardContext |-> NoKey, localSettings |-> {}]
    /\ connection = NoConnection
    /\ execResult = NoResult

\* A key that keeps the resource type as it is written.
AppSettingKeyNoUpperCase(connResult, bSetting) ==
    connResult.name \o <<"_">> \o bSetting.resourceType

\* `${connResult.name}_${nonNullProp(this._setting, 'resourceType').toUpperCase()}`.
AppSettingKey(connResult, bSetting) ==
    connResult.name \o <<"_">> \o ToUpperCase(bSetting.resourceType)

\* setLocalAppSetting: the local settings with key bound to value.
SetLocalAppSetting(settings, key, value) ==
    {kv \in settings : kv.key # key} \cup {[key |-> key, value |-> value]}

\* execute up to its first suspension: the progress report and the getConnection call.
Execute ==
    /\ cpc = "idle"
    /\ executes < MaxExecutes
    /\ executes' = executes + 1
    /\ cpc' = "getConnection"
    /\ getConnectionCalls' = 1
    /\ setLocalAppSettingCalls' = 0
    /\ raised' = NoRaised
    /\ atStart' = [wizardContext |-> wizardContext, localSettings |-> localSettings]
    /\ connection' = NoConnection
    /\ pendingSet' = NoPending
    /\ execResult' = NoResult
    /\ UNCHANGED <<bindingSetting, wizardContext, localSettings,
                   pyVars, probeVars>>

\* A step that asks for the connection again when getConnection fails.
GetConnectionRejectsRetrying(err) ==
    /\ cpc = "getConnection"
    /\ raised' = [by |-> "getConnection", error |-> err]
    /\ IF getConnectionCalls < 2
       THEN /\ getConnectionCalls' = getConnectionCalls + 1
            /\ UNCHANGED <<cpc, execResult>>
       ELSE /\ cpc' = "idle"
            /\ execResult' = [op |-> "execute", status |-> "rejected", error |-> err]
            /\ UNCHANGED getConnectionCalls
    /\ UNCHANGED <<bindingSetting, wizardContext, localSettings, pendingSet, executes,
                   setLocalAppSettingCalls, atStart, connection,
                   pyVars, probeVars>>

\* getConnection rejects: the await rethrows and execute rejects with that error.
GetConnectionRejects(err) ==
    /\ cpc = "getConnection"
    /\ raised' = [by |-> "getConnection", error |-> err]
    /\ cpc' = "idle"
    /\ execResult' = [op |-> "execute", status |-> "rejected", error |-> err]
    /\ UNCHANGED <<bindingSetting, wizardContext, localSettings, pendingSet, executes,
                   getConnectionCalls, setLocalAppSettingCalls, atStart, connection,
                   pyVars, probeVars>>

\* getConnection resolves: the key is derived, bound in the wizard context by
\* setBindingSetting, and setLocalAppSetting is called with it.
GetConnectionResolves(connResult) ==
    /\ cpc = "getConnection"
    /\ connection' = connResult
    /\ LET appSettingKey == AppSettingKey(connResult, bindingSetting)
       IN  /\ wizardContext' = appSettingKey
           /\ pendingSet' = [key |-> appSettingKey, value |-> connResult.connectionString]
    /\ setLocalAppSettingCalls' = setLocalAppSettingCalls + 1
    /\ cpc' = "setLocalAppSetting"
    /\ UNCHANGED <<bindingSetting, localSettings, executes, getConnectionCalls, raised,
                   atStart, execResult,
                   pyVars, probeVars>>

\* setLocalAppSetting resolves: the setting is persisted and execute resolves.
SetLocalAppSettingResolves ==
    /\ cpc = "setLocalAppSetting"
    /\ localSettings' = SetLocalAppSetting(localSettings, pendingSet.key, pendingSet.value)
    /\ cpc' = "idle"
    /\ execResult' = [op |-> "execute", status |-> "resolved", error |-> "none"]
    /\ UNCHANGED <<bindingSetting, wizardContext, pendingSet, executes, getConnectionCalls,
                   setLocalAppSettingCalls, raised, atStart, connection,
                   pyVars, probeVars>>

\* setLocalAppSetting rejects: execute rejects with that error.
SetLocalAppSettingRejects(err) ==
    /\ cpc = "setLocalAppSetting"
    /\ raised' = [by |-> "setLocalAppSetting", error |-> err]
    /\ cpc' = "idle"
    /\ execResult' = [op |-> "execute", status |-> "rejected", error |-> err]
    /\ UNCHANGED <<bindingSetting, wizardContext, localSettings, pendingSet, executes,
                   getConnectionCalls, setLocalAppSettingCalls, atStart, connection,
                   pyVars, probeVars>>

\* ------------------------------------------------------------------ specifications
ProbeNext == TryGetPythonAliasOnce

ConnNext ==
    \/ Execute
    \/ \E err \in GetConnectionErrors : GetConnectionRejects(err)
    \/ \E connResult \in Connections : GetConnectionResolves(connResult)
    \/ SetLocalAppSettingResolves
    \/ \E err \in SetLocalAppSettingErrors : SetLocalAppSettingRejects(err)

Init == PyInit /\ ProbeOff /\ ConnOff

ProbeSpecInit == PyInit /\ ProbeInit /\ ConnOff

ConnSpecInit == PyInit /\ ProbeOff /\ ConnInit

\* The Python project creator under any sequence of its public operations.
Spec == Init /\ [][PyNext]_vars

\* One tryGetPythonAlias call from any alias held before it.
ProbeSpec == ProbeSpecInit /\ [][ProbeNext]_vars

\* The connection step under repeated execute calls.
ConnSpec == ConnSpecInit /\ [][ConnNext]_vars

\* ------------------------------------------------------------------ properties
\* All three aliases of the current addNonVSCodeFiles call have been probed.
ProbesDone == op = "addNonVSCodeFiles" /\ \A a \in AliasNames : outcome[a] # "none"

Qualifying == {i \in 1..Len(Aliases) : outcome[Aliases[i]] = "qualifying"}

EarliestQualifying == Aliases[CHOOSE i \in Qualifying : \A j \in Qualifying : i <= j]

LatestQualifying == Aliases[CHOOSE i \in Qualifying : \A j \in Qualifying : i >= j]

\* C1 as stated: once the three aliases are probed, pythonAlias is the earliest alias
\* in the order py, python, python3 whose version is >= 3.6.0.
C1_FirstMatchWins == (ProbesDone /\ Qualifying # {}) => pythonAlias = EarliestQualifying

\* C1 amended: once the three aliases are probed, pythonAlias is the latest alias in
\* the order py, python, python3 whose version is >= 3.6.0 (a later qualifying alias
\* replaces an earlier accepted one); when none qualifies it is the value held when
\* addNonVSCodeFiles was called.
C1_LastMatchWins ==
    ProbesDone =>
        IF Qualifying # {} THEN pythonAlias = LatestQualifying
        ELSE pythonAlias = aliasAtCall

C1_Witness ==
    /\ ProbesDone
    /\ outcome["py"] = "qualifying"
    /\ outcome["python"] = "old"
    /\ outcome["python3"] = "qualifying"
    /\ pythonAlias = "python3"

\* validatePythonVersion of the current addNonVSCodeFiles call has ended.
ValidationEnded == ProbesDone /\ pc \notin {"probe", "validateEnd"}

\* C2 as stated: when no alias reports a qualifying version, addNonVSCodeFiles is
\* rejected with the 'Python 3.6.0 is required' error and nothing after the probes
\* runs: no prompt, no write of python.venvRelativePath, no func init.
C2_NoQualifyingAliasFails ==
    (ValidationEnded /\ Qualifying = {}) =>
        /\ pc = "idle"
        /\ result = [op |-> "addNonVSCodeFiles", status |-> "rejected", error |-> "PythonRequired"]
        /\ events = {"probe"}

\* C3: tryGetPythonAlias selects the alias exactly when the version triple it reports
\* is lexicographically >= (3, 6, 0); otherwise the field keeps its value.
C3_AcceptsFromThreeSixZero ==
    (pPhase = "returned" /\ pKind = "version") =>
        IF TripleGE(pTriple, <<3, 6, 0>>) THEN pAfter = pAlias ELSE pAfter = pCurrent

C3_Witness ==
    /\ pPhase = "returned"
    /\ pKind = "version"
    /\ pTriple = <<3, 6, 0>>
    /\ pCurrent = Undefined
    /\ pAfter = pAlias

\* C4: after a successful execute the wizard context binding and the key of the
\* persisted local setting are both <name>_<RESOURCETYPE>, and the persisted value is
\* the fetched connection string; 'Storage' with 'storage' gives 'Storage_STORAGE'.
C4_KeyBoundAndPersisted ==
    execResult.status = "resolved" =>
        LET key == connection.name \o <<"_">> \o ToUpperCase(bindingSetting.resourceType)
        IN  /\ wizardContext = key
            /\ pendingSet = [key |-> key, value |-> connection.connectionString]
            /\ \A kv \in localSettings :
                   kv.key = key => kv.value = connection.connectionString
            /\ \E kv \in localSettings : kv.key = key
            /\ (/\ connection.name = <<"S", "t", "o", "r", "a", "g", "e">>
                /\ bindingSetting.resourceType = <<"s", "t", "o", "r", "a", "g", "e">>)
               => wizardContext = <<"S", "t", "o", "r", "a", "g", "e", "_",
                                    "S", "T", "O", "R", "A", "G", "E">>

C4_Witness ==
    /\ execResult.status = "resolved"
    /\ connection.name = <<"S", "t", "o", "r", "a", "g", "e">>
    /\ bindingSetting.resourceType = <<"s", "t", "o", "r", "a", "g", "e">>
    /\ [key |-> wizardContext, value |-> "connectionString2"] \in localSettings

\* getVenvActivatePath has returned a path for the stored venv path 'func_env'.
ReturnedForFuncEnv == retFor.venvPath = funcEnv

\* C5 as stated: for the stored venv path 'func_env' the result is
\* './func_env/Scripts/activate' for Platform.Windows and './func_env/bin/activate'
\* for every other platform.
C5_DotSlashPath ==
    ReturnedForFuncEnv =>
        ret = IF retFor.platform = Windows
              THEN <<".", "/", "func_env", "/", "Scripts", "/", "activate">>
              ELSE <<".", "/", "func_env", "/", "bin", "/", "activate">>

\* C5 amended: the result is the normalised join, which has no leading '.' segment
\* and the separator of the host: for 'func_env' it is func_env<sep>Scripts<sep>activate
\* for Platform.Windows and func_env<sep>bin<sep>activate otherwise, <sep> being '\'
\* on a Windows host and '/' elsewhere; for every stored path it ends with the per-OS
\* folder and 'activate'.
C5_NormalisedPath ==
    LET sep == IF hostPlatform = Windows THEN "\\" ELSE "/"
        dir == IF retFor.platform = Windows THEN "Scripts" ELSE "bin"
        n == Len(ret)
    IN  /\ ReturnedForFuncEnv => ret = <<"func_env", sep, dir, sep, "activate">>
        /\ retFor.venvPath # <<>> =>
               /\ n >= 4
               /\ SubSeq(ret, n - 3, n) = <<sep, dir, sep, "activate">>
               /\ ret[1] # "."

C5_Witness ==
    /\ ReturnedForFuncEnv
    /\ retFor.platform = Windows
    /\ hostPlatform = MacOS
    /\ ret = <<"func_env", "/", "Scripts", "/", "activate">>

\* C6 as stated: a getVenvActivatePath invocation that finds no stored setting makes
\* exactly one re-prompt cycle: one setVirtualEnviornment call, one prompt, one write.
C6_ExactlyOneCycle == cycles <= 1 /\ prompts <= 1 /\ writes <= 1

\* C7: a rejected core tools installation rejects addNonVSCodeFiles with
\* UserCancelledError before any alias is probed; a dismissed prompt or folder dialog
\* ends the call with UserCancelledError, and that call has run neither the venv
\* command nor func init, and the dismissal writes no setting.
C7_CancellationAborts ==
    /\ [](lastAnswer = "toolsRejected" =>
            /\ pc = "idle"
            /\ result = [op |-> "addNonVSCodeFiles", status |-> "rejected",
                         error |-> "UserCancelledError"]
            /\ events = {}
            /\ pythonAlias = aliasAtCall)
    /\ [](lastAnswer = "dismissed" =>
            /\ pc = "idle"
            /\ result = [op |-> op, status |-> "rejected", error |-> "UserCancelledError"]
            /\ "venvCmd" \notin events
            /\ "funcInit" \notin events)
    /\ [][lastAnswer' = "dismissed" => (setting' = setting /\ events' = events)]_vars

C7_Witness ==
    /\ lastAnswer = "dismissed"
    /\ op = "addNonVSCodeFiles"
    /\ "dialog" \in events
    /\ pythonAlias # Undefined

\* C8: getConnection and setLocalAppSetting are called at most once per execute;
\* a rejected execute carries the error its callee raised; when getConnection
\* fails, neither the wizard context nor the local settings are written.
C8_NoRetryErrorsPropagate ==
    /\ getConnectionCalls <= 1
    /\ setLocalAppSettingCalls <= 1
    /\ raised.by # "none" =>
           /\ cpc = "idle"
           /\ execResult = [op |-> "execute", status |-> "rejected", error |-> raised.error]
    /\ raised.by = "getConnection" =>
           /\ setLocalAppSettingCalls = 0
           /\ wizardContext = atStart.wizardContext
           /\ localSettings = atStart.localSettings
    /\ execResult.status = "rejected" => raised.by # "none"

C8_Witness ==
    /\ raised = [by |-> "getConnection", error |-> "AuthenticationError"]
    /\ execResult.status = "rejected"
    /\ executes = 2
    /\ localSettings # {}

\* C9: a probe that fails leaves pythonAlias and the call's result alone and the next
\* alias is probed, so all three are always probed; validatePythonVersion rejects
\* only when no alias qualified.
C9_ProbeFailuresIgnored ==
    /\ [](pc = "validateEnd" => ProbesDone)
    /\ []((ProbesDone /\ Qualifying # {}) => result.error # "PythonRequired")
    /\ [][(pc = "probe" /\ outcome'[Aliases[probeIdx]] = "failure") =>
              /\ pythonAlias' = pythonAlias
              /\ result' = result
              /\ pc' = IF probeIdx < Len(Aliases) THEN "probe" ELSE "validateEnd"]_vars

C9_Witness ==
    /\ ValidationEnded
    /\ outcome["py"] = "qualifying"
    /\ outcome["python"] = "failure"
    /\ outcome["python3"] = "failure"
    /\ pythonAlias = "py"
    /\ "prompt" \in events

\* C10 as stated: `<pythonAlias> -m venv func_env` is started only with pythonAlias set
\* to one of the three aliases.
C10_VenvCommandHasAlias == "venvCmd" \in events => venvCmdAlias \in AliasNames

====
